---- MODULE Spec2Model ----
(***************************************************************************)
(* Model of the beacon scanner component (src/src/app/page.tsx): the scan  *)
(* session life cycle (start / resolve / reject / stop / 30 s timer /      *)
(* advertisement dispatch) as React state plus the closures each render    *)
(* creates, and the advertisement decoding functions (parseiBeacon,        *)
(* logDataView, getCompanyName, handleAdvertisement) over DataView values. *)
(*                                                                         *)
(* Text is modelled as a sequence of string tokens; a hexadecimal string   *)
(* is a sequence of one-character tokens.  A log entry is the message      *)
(* passed to log(); the wall-clock prefix log() prepends is left out.      *)
(***************************************************************************)
EXTENDS Integers, Sequences, FiniteSets, TLC

VARIABLES
    isClient,                \* useState isClient (set by the mount effect)
    bluetooth,               \* navigator.bluetooth is present
    isScanning,              \* useState isScanning
    currentScan,             \* useState currentScan: 0 = null, else index into scans
    logs,                    \* useState logs
    deviceName,              \* useState deviceName
    deviceNamePrefix,        \* useState deviceNamePrefix
    acceptAllAdvertisements, \* useState acceptAllAdvertisements
    scans,                   \* BluetoothLEScan objects the platform has created
    pending,                 \* requestLEScan promises not yet settled
    listeners,               \* 'advertisementreceived' listeners on navigator.bluetooth
    timers,                  \* pending setTimeout callbacks, in scheduling order
    starts,                  \* number of start-button clicks so far
    deliveries,              \* number of advertisements dispatched so far
    lastOp,                  \* the operation that produced this state
    view,                    \* DataView handed to the decoding function under check
    event,                   \* advertisement event handed to handleAdvertisement
    ret                      \* value returned by the last decoding call

vars == <<isClient, bluetooth, isScanning, currentScan, logs, deviceName,
          deviceNamePrefix, acceptAllAdvertisements, scans, pending, listeners,
          timers, starts, deliveries, lastOp, view, event, ret>>

(***************************************************************************)
(* Bounds of the model.                                                    *)
(***************************************************************************)
MaxStarts == 2
MaxDeliveries == 1
MaxLen == 24
MaxOffset == 1
MaxTail == 1

(***************************************************************************)
(* Program constants.                                                      *)
(***************************************************************************)
IBeaconMinLength == 23
IBeaconType == 2
IBeaconSubType == 21
AppleCompanyId == 76

Byte == 0..255

Min(a, b) == IF a < b THEN a ELSE b

(***************************************************************************)
(* Number.prototype.toString(16) on a byte, and String.prototype.padStart  *)
(* (2, '0').                                                               *)
(***************************************************************************)
HexDigits == <<"0", "1", "2", "3", "4", "5", "6", "7",
               "8", "9", "a", "b", "c", "d", "e", "f">>

toString16(b) ==
    IF b < 16 THEN <<HexDigits[b + 1]>>
    ELSE <<HexDigits[(b \div 16) + 1], HexDigits[(b % 16) + 1]>>

padStart2(s) == IF Len(s) < 2 THEN <<"0">> \o s ELSE s

toHex(b) == padStart2(toString16(b))

RECURSIVE join(_, _)
\* Array.prototype.join(sep) over an array of texts
join(arr, sep) ==
    IF arr = <<>> THEN <<>>
    ELSE IF Len(arr) = 1 THEN arr[1]
    ELSE arr[1] \o sep \o join(Tail(arr), sep)

(***************************************************************************)
(* DataView: a window [byteOffset, byteOffset + byteLength) on an          *)
(* ArrayBuffer.  The accessors are relative to the view and raise          *)
(* RangeError outside it; new Uint8Array(buffer, ...) is relative to the   *)
(* underlying buffer.                                                      *)
(***************************************************************************)
RangeError == 0 - 1000

getUint8(dataView, off) ==
    IF off + 1 > dataView.byteLength THEN RangeError
    ELSE dataView.buffer[dataView.byteOffset + off + 1]

getUint16(dataView, off) ==
    IF off + 2 > dataView.byteLength THEN RangeError
    ELSE 256 * dataView.buffer[dataView.byteOffset + off + 1]
         + dataView.buffer[dataView.byteOffset + off + 2]

getInt8(dataView, off) ==
    IF off + 1 > dataView.byteLength THEN RangeError
    ELSE LET b == dataView.buffer[dataView.byteOffset + off + 1]
         IN  IF b >= 128 THEN b - 256 ELSE b

\* new Uint8Array(buffer, byteOffset, length) raises RangeError
Uint8ArrayThrows(buffer, off, len) == off + len > Len(buffer)

\* new Uint8Array(buffer, byteOffset, length)
Uint8ArrayAt(buffer, off, len) == SubSeq(buffer, off + 1, off + len)

\* new Uint8Array(buffer)
Uint8Array(buffer) == buffer

\* the bytes the view itself exposes
ViewBytes(dataView) ==
    SubSeq(dataView.buffer, dataView.byteOffset + 1,
           dataView.byteOffset + dataView.byteLength)

(***************************************************************************)
(* parseiBeacon: null is the record Null.                                  *)
(***************************************************************************)
Null == [recognized |-> FALSE]

\* .replace(/(.{8})(.{4})(.{4})(.{4})(.{12})/, '$1-$2-$3-$4-$5')
uuidReplace(s) ==
    IF Len(s) < 32 THEN s
    ELSE SubSeq(s, 1, 8) \o <<"-">> \o SubSeq(s, 9, 12) \o <<"-">>
         \o SubSeq(s, 13, 16) \o <<"-">> \o SubSeq(s, 17, 20) \o <<"-">>
         \o SubSeq(s, 21, 32) \o SubSeq(s, 33, Len(s))

\* parseiBeacon reading the underlying buffer in place of the view
parseiBeacon_wholeBuffer(dataView) ==
    LET bytes == Uint8Array(dataView.buffer)
    IN  IF Len(bytes) < IBeaconMinLength THEN Null
        ELSE IF bytes[1] # IBeaconType \/ bytes[2] # IBeaconSubType THEN Null
        ELSE [recognized |-> TRUE,
              uuid |-> uuidReplace(join([i \in 1..16 |-> toHex(bytes[i + 2])], <<>>)),
              major |-> 256 * bytes[19] + bytes[20],
              minor |-> 256 * bytes[21] + bytes[22],
              txPower |-> IF bytes[23] >= 128 THEN bytes[23] - 256 ELSE bytes[23]]

\* parseiBeacon rejecting only when both marker bytes differ
parseiBeacon_bothMarkers(dataView) ==
    IF dataView.byteLength < IBeaconMinLength THEN Null
    ELSE
      LET type    == getUint8(dataView, 0)
          subType == getUint8(dataView, 1)
      IN
      IF type # IBeaconType /\ subType # IBeaconSubType THEN Null
      ELSE
        LET bytes   == Uint8ArrayAt(dataView.buffer, 2, 16)
            uuid    == uuidReplace(join([i \in 1..Len(bytes) |-> toHex(bytes[i])], <<>>))
        IN  [recognized |-> TRUE, uuid |-> uuid,
             major |-> getUint16(dataView, 18),
             minor |-> getUint16(dataView, 20),
             txPower |-> getInt8(dataView, 22)]

\* parseiBeacon reading major and minor little-endian
parseiBeacon_littleEndian(dataView) ==
    IF dataView.byteLength < IBeaconMinLength THEN Null
    ELSE
      LET type    == getUint8(dataView, 0)
          subType == getUint8(dataView, 1)
      IN
      IF type # IBeaconType \/ subType # IBeaconSubType THEN Null
      ELSE
        LET bytes   == Uint8ArrayAt(dataView.buffer, 2, 16)
            uuid    == uuidReplace(join([i \in 1..Len(bytes) |-> toHex(bytes[i])], <<>>))
        IN  [recognized |-> TRUE, uuid |-> uuid,
             major |-> getUint8(dataView, 18) + 256 * getUint8(dataView, 19),
             minor |-> getUint8(dataView, 20) + 256 * getUint8(dataView, 21),
             txPower |-> getInt8(dataView, 22)]

parseiBeacon(dataView) ==
    IF dataView.byteLength < IBeaconMinLength THEN Null
    ELSE
      LET type    == getUint8(dataView, 0)
          subType == getUint8(dataView, 1)
      IN
      IF type = RangeError \/ subType = RangeError THEN Null
      ELSE IF type # IBeaconType \/ subType # IBeaconSubType THEN Null
      ELSE IF Uint8ArrayThrows(dataView.buffer, 2, 16) THEN Null
      ELSE
        LET bytes   == Uint8ArrayAt(dataView.buffer, 2, 16)
            uuid    == uuidReplace(join([i \in 1..Len(bytes) |-> toHex(bytes[i])], <<>>))
            major   == getUint16(dataView, 18)
            minor   == getUint16(dataView, 20)
            txPower == getInt8(dataView, 22)
        IN
        IF major = RangeError \/ minor = RangeError \/ txPower = RangeError
        THEN Null
        ELSE [recognized |-> TRUE, uuid |-> uuid, major |-> major,
              minor |-> minor, txPower |-> txPower]

(***************************************************************************)
(* TextDecoder('ascii'): the label selects windows-1252, one code point    *)
(* per byte.  A decoded character is written "u<code point>".              *)
(***************************************************************************)
Windows1252High ==
    <<8364, 129, 8218, 402, 8222, 8230, 8224, 8225,
      710, 8240, 352, 8249, 338, 141, 381, 143,
      144, 8216, 8217, 8220, 8221, 8226, 8211, 8212,
      732, 8482, 353, 8250, 339, 157, 382, 376>>

decodeByte(b) ==
    IF b >= 128 /\ b < 160 THEN Windows1252High[b - 127] ELSE b

decode(buffer) == [i \in 1..Len(buffer) |-> "u" \o ToString(decodeByte(buffer[i]))]

HexMark == "\n    (Hex) "
AsciiMark == "\n    (ASCII) "

\* the hexString logDataView computes
hexString(valueDataView) ==
    LET arr == Uint8Array(valueDataView.buffer)
    IN  join([i \in 1..Len(arr) |-> toHex(arr[i])], <<" ">>)

\* the message logDataView hands to log()
logDataView(labelOfDataSource, key, valueDataView) ==
    <<"  ", labelOfDataSource, " Data: ", key, HexMark>>
    \o hexString(valueDataView)
    \o <<AsciiMark>> \o decode(valueDataView.buffer)

(***************************************************************************)
(* getCompanyName: companies[id] || `Unknown Company (${id})`.             *)
(***************************************************************************)
KnownCompanyIds == {6, 76, 224, 89, 117}

companies(id) ==
    CASE id = 6   -> "Microsoft Corporation"
      [] id = 76  -> "Apple, Inc."
      [] id = 224 -> "Google"
      [] id = 89  -> "Nuheara Limited"
      [] id = 117 -> "Tencent Holdings Ltd."

\* getCompanyName answering the bare text for an id that is not in the table
getCompanyName_noId(id) ==
    IF id \in KnownCompanyIds THEN companies(id)
    ELSE "Unknown Company"

getCompanyName(id) ==
    IF id \in KnownCompanyIds THEN companies(id)
    ELSE "Unknown Company (" \o ToString(id) \o ")"

(***************************************************************************)
(* handleAdvertisement: the messages one invocation hands to log(), in     *)
(* order.  An absent optional field of the event is Undefined (numbers)    *)
(* or "" (device.name).  manufacturerData and serviceData are Maps: here   *)
(* sequences of [key, value] in insertion order, keys unique.              *)
(* The decorative glyphs of the header and section lines are written in    *)
(* ASCII.                                                                  *)
(***************************************************************************)
Undefined == 0 - 2000

HeaderLine == <<"=== Advertisement received ===">>
ManufacturerLine == <<"  Manufacturer Data:">>
ServiceLine == <<"  Service Data:">>
DetectedLine == <<"    iBeacon Detected!">>
EmptyLine == <<"">>

\* JSON.stringify of an array of strings
stringifyStrings(arr) ==
    <<"[">> \o join([i \in 1..Len(arr) |-> <<"\"", arr[i], "\"">>], <<",">>) \o <<"]">>

iBeaconLines(iBeaconData) ==
    << DetectedLine,
       <<"      UUID: ">> \o iBeaconData.uuid,
       <<"      Major: ", ToString(iBeaconData.major)>>,
       <<"      Minor: ", ToString(iBeaconData.minor)>>,
       <<"      TX Power: ", ToString(iBeaconData.txPower), " dBm">> >>

\* the forEach callback without the early return after the iBeacon block
manufacturerEntry_noReturn(valueDataView, key) ==
    LET companyName == getCompanyName(key)
        companyLine == <<"    Company: ", companyName, " (ID: ", ToString(key), ")">>
        iBeaconData == IF key = AppleCompanyId THEN parseiBeacon(valueDataView) ELSE Null
    IN  <<companyLine>>
        \o (IF key = AppleCompanyId /\ iBeaconData.recognized
            THEN iBeaconLines(iBeaconData) ELSE <<>>)
        \o <<logDataView("    Data", "", valueDataView)>>

\* the callback of event.manufacturerData.forEach for one entry
manufacturerEntry(valueDataView, key) ==
    LET companyName == getCompanyName(key)
        companyLine == <<"    Company: ", companyName, " (ID: ", ToString(key), ")">>
        iBeaconData == IF key = AppleCompanyId THEN parseiBeacon(valueDataView) ELSE Null
    IN  IF key = AppleCompanyId /\ iBeaconData.recognized
        THEN <<companyLine>> \o iBeaconLines(iBeaconData)
        ELSE <<companyLine, logDataView("    Data", "", valueDataView)>>

\* the callback of event.serviceData.forEach for one entry
serviceEntry(valueDataView, key) ==
    <<logDataView("    Service", key, valueDataView)>>

RECURSIVE forEachManufacturer(_)
forEachManufacturer(entries) ==
    IF entries = <<>> THEN <<>>
    ELSE manufacturerEntry(entries[1].value, entries[1].key)
         \o forEachManufacturer(Tail(entries))

RECURSIVE forEachService(_)
forEachService(entries) ==
    IF entries = <<>> THEN <<>>
    ELSE serviceEntry(entries[1].value, entries[1].key)
         \o forEachService(Tail(entries))

\* handleAdvertisement without its closing log('')
handleAdvertisement_noEmptyLine(ev) ==
    << HeaderLine,
       <<"  Device Name: ", IF ev.name # "" THEN ev.name ELSE "Unknown">>,
       <<"  Device ID (Chrome Internal): ", ev.id>>,
       <<"  RSSI: ">> \o (IF ev.rssi # Undefined
                          THEN <<ToString(ev.rssi), " dBm">> ELSE <<"Unknown">>),
       <<"  TX Power: ">> \o (IF ev.txPower # Undefined
                              THEN <<ToString(ev.txPower), " dBm">>
                              ELSE <<"Not provided">>),
       <<"  Service UUIDs: ">> \o (IF Len(ev.uuids) > 0
                                   THEN stringifyStrings(ev.uuids)
                                   ELSE <<"None advertised">>) >>
    \o (IF Len(ev.manufacturerData) > 0
        THEN <<ManufacturerLine>> \o forEachManufacturer(ev.manufacturerData)
        ELSE <<>>)
    \o (IF Len(ev.serviceData) > 0
        THEN <<ServiceLine>> \o forEachService(ev.serviceData)
        ELSE <<>>)

handleAdvertisement(ev) ==
    << HeaderLine,
       <<"  Device Name: ", IF ev.name # "" THEN ev.name ELSE "Unknown">>,
       <<"  Device ID (Chrome Internal): ", ev.id>>,
       <<"  RSSI: ">> \o (IF ev.rssi # Undefined
                          THEN <<ToString(ev.rssi), " dBm">> ELSE <<"Unknown">>),
       <<"  TX Power: ">> \o (IF ev.txPower # Undefined
                              THEN <<ToString(ev.txPower), " dBm">>
                              ELSE <<"Not provided">>),
       <<"  Service UUIDs: ">> \o (IF Len(ev.uuids) > 0
                                   THEN stringifyStrings(ev.uuids)
                                   ELSE <<"None advertised">>) >>
    \o (IF Len(ev.manufacturerData) > 0
        THEN <<ManufacturerLine>> \o forEachManufacturer(ev.manufacturerData)
        ELSE <<>>)
    \o (IF Len(ev.serviceData) > 0
        THEN <<ServiceLine>> \o forEachService(ev.serviceData)
        ELSE <<>>)
    \o <<EmptyLine>>

(***************************************************************************)
(* startScan, first half: the filters and options built from the inputs    *)
(* the click's render captured.                                            *)
(***************************************************************************)
BoolStr(b) == IF b THEN "true" ELSE "false"

buildFilters(name, prefix) ==
    (IF name # "" THEN <<[name |-> name]>> ELSE <<>>)
    \o (IF prefix # "" THEN <<[namePrefix |-> prefix]>> ELSE <<>>)

buildOptions(acceptAll, name, prefix) ==
    IF acceptAll THEN [acceptAllAdvertisements |-> TRUE]
    ELSE [filters |-> buildFilters(name, prefix)]

\* JSON.stringify of one filter object
stringifyFilter(f) ==
    IF "name" \in DOMAIN f THEN <<"{\"name\":\"", f.name, "\"}">>
    ELSE <<"{\"namePrefix\":\"", f.namePrefix, "\"}">>

\* JSON.stringify of a filters array
stringifyFilters(fs) ==
    <<"[">> \o join([i \in 1..Len(fs) |-> stringifyFilter(fs[i])], <<",">>) \o <<"]">>

\* JSON.stringify(options)
stringifyOptions(options) ==
    IF "acceptAllAdvertisements" \in DOMAIN options
    THEN <<"{\"acceptAllAdvertisements\":true}">>
    ELSE <<"{\"filters\":">> \o stringifyFilters(options.filters) \o <<"}">>

\* the BluetoothLEScan the platform hands back for a granted request
newScan(options) ==
    [active |-> TRUE,
     acceptAllAdvertisements |-> "acceptAllAdvertisements" \in DOMAIN options,
     keepRepeatedDevices |-> FALSE,
     filters |-> IF "filters" \in DOMAIN options THEN options.filters ELSE <<>>]

ErrorMessages == {"User denied the scan request"}

DeviceNames == {"", "beacon"}
DeviceNamePrefixes == {"", "bea"}

RemoveAt(seq, i) == SubSeq(seq, 1, i - 1) \o SubSeq(seq, i + 1, Len(seq))

ActiveScans == {i \in 1..Len(scans) : scans[i].active}

Op(name, scan, handlers) == [op |-> name, scan |-> scan, handlers |-> handlers]

(***************************************************************************)
(* Inputs of the decoding functions.                                       *)
(***************************************************************************)
EmptyView == [buffer |-> <<>>, byteOffset |-> 0, byteLength |-> 0]

NoEvent == [name |-> "", id |-> "", rssi |-> Undefined, txPower |-> Undefined,
            uuids |-> <<>>, manufacturerData |-> <<>>, serviceData |-> <<>>]

NoRet == [op |-> "none"]

CanonicalUuid == <<226, 197, 109, 181, 223, 251, 72, 210,
                   176, 96, 208, 245, 167, 16, 150, 224>>

SquareUuid == [i \in 1..16 |-> (3 * i * i) % 256]

Uuids == {CanonicalUuid, SquareUuid}

Markers == {<<2, 21>>, <<2, 0>>, <<0, 21>>, <<21, 2>>}

\* major, minor and txPower bytes
Fields == {<<1, 2, 0, 3, 197>>, <<255, 255, 128, 0, 127>>, <<0, 9, 255, 254, 128>>}

Pad(n) == [i \in 1..n |-> IF i % 2 = 1 THEN 2 ELSE 90 + i]

\* a payload of len bytes laid out as an iBeacon frame, cut or extended to len
Payload(marker, uuid, fields, len) ==
    LET full == marker \o uuid \o fields \o Pad(len)
    IN  SubSeq(full, 1, len)

\* a DataView of the payload, off bytes into a buffer with tail bytes after it
ViewOf(payload, off, tail) ==
    [buffer |-> Pad(off) \o payload \o Pad(tail),
     byteOffset |-> off, byteLength |-> Len(payload)]

DecodeViews ==
    { ViewOf(Payload(m, u, f, len), off, tail) :
        m \in Markers, u \in Uuids, f \in Fields, len \in 0..MaxLen,
        off \in 0..MaxOffset, tail \in 0..MaxTail }

CanonicalPayload == Payload(<<2, 21>>, CanonicalUuid, <<1, 2, 0, 3, 197>>, 23)

ScenarioEvent ==
    [name |-> "beacon", id |-> "dev1", rssi |-> 0 - 70, txPower |-> Undefined,
     uuids |-> <<>>,
     manufacturerData |->
        << [key |-> 76, value |-> ViewOf(CanonicalPayload, 0, 0)],
           [key |-> 1234, value |-> ViewOf(<<222, 173, 190, 239>>, 0, 0)] >>,
     serviceData |-> <<>>]

BareEvent ==
    [name |-> "", id |-> "dev2", rssi |-> Undefined, txPower |-> 4,
     uuids |-> <<"feaa">>, manufacturerData |-> <<>>,
     serviceData |-> << [key |-> "feaa", value |-> ViewOf(<<16, 235>>, 0, 0)] >>]

SessionEvents == {ScenarioEvent, BareEvent}

(***************************************************************************)
(* The component after construction (first render, effect not yet run).    *)
(***************************************************************************)
Init ==
    /\ isClient = FALSE
    /\ bluetooth \in BOOLEAN
    /\ isScanning = FALSE
    /\ currentScan = 0
    /\ logs = <<>>
    /\ deviceName = ""
    /\ deviceNamePrefix = ""
    /\ acceptAllAdvertisements = FALSE
    /\ scans = <<>>
    /\ pending = <<>>
    /\ listeners = <<>>
    /\ timers = <<>>
    /\ starts = 0
    /\ deliveries = 0
    /\ lastOp = Op("Init", 0, 0)
    /\ view = EmptyView
    /\ event = NoEvent
    /\ ret = NoRet

\* useEffect(() => setIsClient(true), [])
Mount ==
    /\ ~isClient
    /\ isClient' = TRUE
    /\ lastOp' = Op("Mount", 0, 0)
    /\ UNCHANGED <<bluetooth, isScanning, currentScan, logs, deviceName,
                   deviceNamePrefix, acceptAllAdvertisements, scans, pending,
                   listeners, timers, starts, deliveries, view, event, ret>>

SetDeviceName(v) ==
    /\ ~acceptAllAdvertisements
    /\ v # deviceName
    /\ deviceName' = v
    /\ lastOp' = Op("SetDeviceName", 0, 0)
    /\ UNCHANGED <<isClient, bluetooth, isScanning, currentScan, logs,
                   deviceNamePrefix, acceptAllAdvertisements, scans, pending,
                   listeners, timers, starts, deliveries, view, event, ret>>

SetDeviceNamePrefix(v) ==
    /\ ~acceptAllAdvertisements
    /\ v # deviceNamePrefix
    /\ deviceNamePrefix' = v
    /\ lastOp' = Op("SetDeviceNamePrefix", 0, 0)
    /\ UNCHANGED <<isClient, bluetooth, isScanning, currentScan, logs,
                   deviceName, acceptAllAdvertisements, scans, pending,
                   listeners, timers, starts, deliveries, view, event, ret>>

SetAcceptAllAdvertisements ==
    /\ acceptAllAdvertisements' = ~acceptAllAdvertisements
    /\ lastOp' = Op("SetAcceptAllAdvertisements", 0, 0)
    /\ UNCHANGED <<isClient, bluetooth, isScanning, currentScan, logs,
                   deviceName, deviceNamePrefix, scans, pending,
                   listeners, timers, starts, deliveries, view, event, ret>>

\* startScan guarded by navigator.bluetooth alone, without the isClient test
StartScan_noClientGuard ==
    /\ ~isScanning
    /\ starts < MaxStarts
    /\ starts' = starts + 1
    /\ IF ~bluetooth
       THEN /\ logs' = Append(logs, <<"Web Bluetooth API is not available in this browser">>)
            /\ lastOp' = Op("StartScanUnavailable", 0, 0)
            /\ UNCHANGED <<isScanning, pending>>
       ELSE LET options == buildOptions(acceptAllAdvertisements, deviceName,
                                        deviceNamePrefix)
            IN  /\ logs' = Append(logs, <<"Requesting Bluetooth Scan with options: ">>
                                        \o stringifyOptions(options))
                /\ isScanning' = TRUE
                /\ pending' = Append(pending, [options |-> options,
                                               stopScan |-> currentScan])
                /\ lastOp' = Op("StartScan", 0, 0)
    /\ UNCHANGED <<isClient, bluetooth, currentScan, deviceName, deviceNamePrefix,
                   acceptAllAdvertisements, scans, listeners, timers,
                   deliveries, view, event, ret>>

\* the toggle button while isScanning is false: startScan up to the await
StartScan ==
    /\ ~isScanning
    /\ starts < MaxStarts
    /\ starts' = starts + 1
    /\ IF ~isClient \/ ~bluetooth
       THEN /\ logs' = Append(logs, <<"Web Bluetooth API is not available in this browser">>)
            /\ lastOp' = Op("StartScanUnavailable", 0, 0)
            /\ UNCHANGED <<isScanning, pending>>
       ELSE LET options == buildOptions(acceptAllAdvertisements, deviceName,
                                        deviceNamePrefix)
            IN  /\ logs' = Append(logs, <<"Requesting Bluetooth Scan with options: ">>
                                        \o stringifyOptions(options))
                /\ isScanning' = TRUE
                /\ pending' = Append(pending, [options |-> options,
                                               stopScan |-> currentScan])
                /\ lastOp' = Op("StartScan", 0, 0)
    /\ UNCHANGED <<isClient, bluetooth, currentScan, deviceName, deviceNamePrefix,
                   acceptAllAdvertisements, scans, listeners, timers,
                   deliveries, view, event, ret>>

\* requestLEScan resolves: startScan from the await to the end of the try block
ResolveScan(i) ==
    /\ i \in 1..Len(pending)
    /\ LET scan == newScan(pending[i].options)
           n    == Len(scans) + 1
       IN  /\ scans' = Append(scans, scan)
           /\ currentScan' = n
           /\ logs' = logs \o
                << <<"Scan started with:">>,
                   <<" acceptAllAdvertisements: ", BoolStr(scan.acceptAllAdvertisements)>>,
                   <<" active: ", BoolStr(scan.active)>>,
                   <<" keepRepeatedDevices: ", BoolStr(scan.keepRepeatedDevices)>>,
                   <<" filters: ">> \o stringifyFilters(scan.filters) >>
           /\ listeners' = Append(listeners, n)
           /\ timers' = Append(timers, [scan |-> n, stopScan |-> pending[i].stopScan])
           /\ lastOp' = Op("ResolveScan", n, 0)
    /\ pending' = RemoveAt(pending, i)
    /\ UNCHANGED <<isClient, bluetooth, isScanning, deviceName, deviceNamePrefix,
                   acceptAllAdvertisements, starts, deliveries, view, event, ret>>

\* the catch block without setIsScanning(false)
RejectScan_noReset(i, message) ==
    /\ i \in 1..Len(pending)
    /\ logs' = Append(logs, <<"Error: ", message>>)
    /\ pending' = RemoveAt(pending, i)
    /\ lastOp' = Op("RejectScan", 0, 0)
    /\ UNCHANGED <<isClient, bluetooth, isScanning, currentScan, deviceName,
                   deviceNamePrefix, acceptAllAdvertisements, scans, listeners,
                   timers, starts, deliveries, view, event, ret>>

\* requestLEScan rejects: the catch block of startScan
RejectScan(i, message) ==
    /\ i \in 1..Len(pending)
    /\ logs' = Append(logs, <<"Error: ", message>>)
    /\ isScanning' = FALSE
    /\ pending' = RemoveAt(pending, i)
    /\ lastOp' = Op("RejectScan", 0, 0)
    /\ UNCHANGED <<isClient, bluetooth, currentScan, deviceName, deviceNamePrefix,
                   acceptAllAdvertisements, scans, listeners, timers, starts,
                   deliveries, view, event, ret>>

\* stopScan as a render created it: captured is that render's currentScan
stopScan(captured) ==
    LET stops == captured # 0 /\ scans[captured].active
    IN  /\ logs' = IF stops
                   THEN logs \o << <<"Stopping scan...">>,
                                   <<"Stopped. scan.active = ", BoolStr(FALSE)>> >>
                   ELSE logs
        /\ scans' = IF stops THEN [scans EXCEPT ![captured].active = FALSE] ELSE scans
        /\ isScanning' = FALSE
        /\ currentScan' = 0

\* the toggle button while isScanning is true: the current render's stopScan
StopScan ==
    /\ isScanning
    /\ stopScan(currentScan)
    /\ lastOp' = Op("StopScan", currentScan, 0)
    /\ UNCHANGED <<isClient, bluetooth, deviceName, deviceNamePrefix,
                   acceptAllAdvertisements, pending, listeners, timers, starts,
                   deliveries, view, event, ret>>

\* the 30000 ms timer of a session fires: it calls the stopScan its startScan captured
TimerFire ==
    /\ timers # <<>>
    /\ LET t == Head(timers)
       IN  /\ IF scans[t.scan].active
              THEN stopScan(t.stopScan)
              ELSE UNCHANGED <<logs, scans, isScanning, currentScan>>
           /\ lastOp' = Op("TimerFire", t.scan, 0)
    /\ timers' = Tail(timers)
    /\ UNCHANGED <<isClient, bluetooth, deviceName, deviceNamePrefix,
                   acceptAllAdvertisements, pending, listeners, starts,
                   deliveries, view, event, ret>>

\* log with the array of the render in place of the updater's prev
log_stale(prev, message) == Append(logs, message)

\* log: setLogs(prev => [...prev, message]); the time-of-day prefix is left out
log(prev, message) == Append(prev, message)

RECURSIVE logEach(_, _)
\* the queued setLogs updaters of one event, applied in call order
logEach(prev, messages) ==
    IF messages = <<>> THEN prev
    ELSE logEach(log(prev, messages[1]), Tail(messages))

RECURSIVE dispatch(_, _)
\* every listener, in registration order, handles the event
dispatch(ls, ev) ==
    IF ls = <<>> THEN <<>> ELSE handleAdvertisement(ev) \o dispatch(Tail(ls), ev)

\* a handler that unsubscribes itself once it has handled an event
Deliver_once(ev) ==
    /\ ActiveScans # {}
    /\ deliveries < MaxDeliveries
    /\ deliveries' = deliveries + 1
    /\ logs' = logs \o dispatch(listeners, ev)
    /\ listeners' = <<>>
    /\ event' = ev
    /\ lastOp' = Op("Deliver", 0, Len(listeners))
    /\ UNCHANGED <<isClient, bluetooth, isScanning, currentScan, deviceName,
                   deviceNamePrefix, acceptAllAdvertisements, scans, pending,
                   timers, starts, view, ret>>

\* the platform fires 'advertisementreceived' on navigator.bluetooth
Deliver(ev) ==
    /\ ActiveScans # {}
    /\ deliveries < MaxDeliveries
    /\ deliveries' = deliveries + 1
    /\ logs' = logEach(logs, dispatch(listeners, ev))
    /\ event' = ev
    /\ lastOp' = Op("Deliver", 0, Len(listeners))
    /\ UNCHANGED <<isClient, bluetooth, isScanning, currentScan, deviceName,
                   deviceNamePrefix, acceptAllAdvertisements, scans, pending,
                   listeners, timers, starts, view, ret>>

clearLogs ==
    /\ logs # <<>>
    /\ logs' = <<>>
    /\ lastOp' = Op("clearLogs", 0, 0)
    /\ UNCHANGED <<isClient, bluetooth, isScanning, currentScan, deviceName,
                   deviceNamePrefix, acceptAllAdvertisements, scans, pending,
                   listeners, timers, starts, deliveries, view, event, ret>>

(***************************************************************************)
(* Spec: the scan session life cycle.  The filter form keeps its initial   *)
(* values here; SpecForm below adds the form edits.                        *)
(***************************************************************************)
Next ==
    \/ Mount
    \/ StartScan
    \/ \E i \in 1..Len(pending) : ResolveScan(i)
    \/ \E i \in 1..Len(pending), m \in ErrorMessages : RejectScan(i, m)
    \/ StopScan
    \/ TimerFire
    \/ \E ev \in SessionEvents : Deliver(ev)
    \/ clearLogs

Spec == Init /\ [][Next]_vars

(***************************************************************************)
(* SpecForm: the filter form and the scan requests made from it.           *)
(***************************************************************************)
NextForm ==
    \/ Mount
    \/ \E v \in DeviceNames : SetDeviceName(v)
    \/ \E v \in DeviceNamePrefixes : SetDeviceNamePrefix(v)
    \/ SetAcceptAllAdvertisements
    \/ StartScan
    \/ \E i \in 1..Len(pending) : ResolveScan(i)
    \/ \E i \in 1..Len(pending), m \in ErrorMessages : RejectScan(i, m)
    \/ StopScan

SpecForm == Init /\ [][NextForm]_vars

TypeOK ==
    /\ isClient \in BOOLEAN
    /\ isScanning \in BOOLEAN
    /\ currentScan \in 0..Len(scans)
    /\ starts \in 0..MaxStarts

(***************************************************************************)
(* SpecDecode: parseiBeacon and logDataView applied to one DataView.  The  *)
(* component is in its initial state; the DataView is any of DecodeViews.  *)
(***************************************************************************)
componentVars == <<isClient, bluetooth, isScanning, currentScan, deviceName,
                   deviceNamePrefix, acceptAllAdvertisements, scans, pending,
                   listeners, timers, starts, deliveries>>

InitComponent ==
    /\ isClient = TRUE
    /\ bluetooth = TRUE
    /\ isScanning = FALSE
    /\ currentScan = 0
    /\ logs = <<>>
    /\ deviceName = ""
    /\ deviceNamePrefix = ""
    /\ acceptAllAdvertisements = FALSE
    /\ scans = <<>>
    /\ pending = <<>>
    /\ listeners = <<>>
    /\ timers = <<>>
    /\ starts = 0
    /\ deliveries = 0
    /\ lastOp = Op("Init", 0, 0)
    /\ ret = NoRet

InitDecode ==
    /\ InitComponent
    /\ view \in DecodeViews
    /\ event = NoEvent

CallParseiBeacon ==
    /\ ret.op = "none"
    /\ ret' = [op |-> "parseiBeacon", value |-> parseiBeacon(view)]
    /\ lastOp' = Op("parseiBeacon", 0, 0)
    /\ UNCHANGED <<componentVars, logs, view, event>>

CallLogDataView ==
    /\ ret.op = "none"
    /\ logs' = Append(logs, logDataView("    Data", "", view))
    /\ ret' = [op |-> "logDataView"]
    /\ lastOp' = Op("logDataView", 0, 0)
    /\ UNCHANGED <<componentVars, view, event>>

NextDecode ==
    \/ CallParseiBeacon
    \/ CallLogDataView

SpecDecode == InitDecode /\ [][NextDecode]_vars

(***************************************************************************)
(* SpecHandle: handleAdvertisement applied to one advertisement event.     *)
(***************************************************************************)
MaxEntries == 2
MaxServiceEntries == 1

CompanyKeys == {76, 6, 1234}
ServiceKeys == <<"feaa", "180f", "fe9a", "fd6f">>

HandleViews ==
    { ViewOf(CanonicalPayload, 0, 0),
      ViewOf(CanonicalPayload, 1, 0),
      ViewOf(Payload(<<2, 21>>, CanonicalUuid, <<1, 2, 0, 3, 197>>, 22), 0, 1),
      ViewOf(Payload(<<2, 0>>, SquareUuid, <<0, 9, 255, 254, 128>>, 23), 0, 0),
      ViewOf(<<222, 173, 190, 239>>, 0, 0),
      EmptyView }

ServiceViews == { ViewOf(<<16, 235>>, 0, 0), ViewOf(CanonicalPayload, 0, 0) }

DistinctKeys(entries) ==
    \A i, j \in 1..Len(entries) : i # j => entries[i].key # entries[j].key

ManufacturerMaps ==
    UNION { { m \in [1..n -> [key : CompanyKeys, value : HandleViews]] : DistinctKeys(m) }
            : n \in 0..MaxEntries }

ServiceMaps ==
    UNION { { m \in [1..n -> [key : {ServiceKeys[i] : i \in 1..n}, value : ServiceViews]] :
                \A i \in 1..n : m[i].key = ServiceKeys[n + 1 - i] }
            : n \in 0..Min(MaxServiceEntries, Len(ServiceKeys)) }

HandleEvents ==
    { [name |-> h.name, id |-> "dev", rssi |-> h.rssi, txPower |-> h.txPower,
       uuids |-> h.uuids, manufacturerData |-> m, serviceData |-> sv] :
        h \in { [name |-> "beacon", rssi |-> 0 - 70, txPower |-> Undefined, uuids |-> <<>>],
                [name |-> "", rssi |-> Undefined, txPower |-> 4, uuids |-> <<"feaa">>] },
        m \in ManufacturerMaps, sv \in ServiceMaps }

InitHandle ==
    /\ InitComponent
    /\ view = EmptyView
    /\ event \in HandleEvents

CallHandleAdvertisement ==
    /\ ret.op = "none"
    /\ logs' = logs \o handleAdvertisement(event)
    /\ ret' = [op |-> "handleAdvertisement"]
    /\ lastOp' = Op("handleAdvertisement", 0, 1)
    /\ UNCHANGED <<componentVars, view, event>>

NextHandle == CallHandleAdvertisement

SpecHandle == InitHandle /\ [][NextHandle]_vars

(***************************************************************************)
(* SpecAdvert: advertisements delivered to a running session.  The start   *)
(* state is the one Spec reaches by Mount, StartScan, ResolveScan(1) and    *)
(* clearLogs; each advertisement carries one manufacturer-data entry whose *)
(* payload has one of PayloadLengths bytes.                                *)
(***************************************************************************)
PayloadLengths == {0, 1, IBeaconMinLength - 1, IBeaconMinLength, MaxLen}

AdvertViews ==
    { v \in DecodeViews : /\ v.byteLength \in PayloadLengths
                          /\ v.byteOffset = 0
                          /\ Len(v.buffer) = v.byteLength }

AdvertEvents ==
    { [name |-> "beacon", id |-> "dev", rssi |-> 0 - 70, txPower |-> Undefined,
       uuids |-> <<>>, manufacturerData |-> << [key |-> k, value |-> v] >>,
       serviceData |-> <<>>] : k \in CompanyKeys, v \in AdvertViews }

InitAdvert ==
    /\ isClient = TRUE
    /\ bluetooth = TRUE
    /\ isScanning = TRUE
    /\ currentScan = 1
    /\ logs = <<>>
    /\ deviceName = ""
    /\ deviceNamePrefix = ""
    /\ acceptAllAdvertisements = FALSE
    /\ scans = << newScan(buildOptions(FALSE, "", "")) >>
    /\ pending = <<>>
    /\ listeners = <<1>>
    /\ timers = << [scan |-> 1, stopScan |-> 0] >>
    /\ starts = 1
    /\ deliveries = 0
    /\ lastOp = Op("clearLogs", 0, 0)
    /\ view = EmptyView
    /\ event = NoEvent
    /\ ret = NoRet

NextAdvert == \E ev \in AdvertEvents : Deliver(ev)

SpecAdvert == InitAdvert /\ [][NextAdvert]_vars

(***************************************************************************)
(* SpecCompany: getCompanyName applied to one company identifier.          *)
(***************************************************************************)
MaxCompanyId == 255

CompanyIds == 0..MaxCompanyId \cup {1234, 32768, 65534, 65535}

InitCompany ==
    /\ InitComponent
    /\ view = EmptyView
    /\ event = NoEvent

CallGetCompanyName(id) ==
    /\ ret.op = "none"
    /\ ret' = [op |-> "getCompanyName", id |-> id, value |-> getCompanyName(id)]
    /\ lastOp' = Op("getCompanyName", 0, 0)
    /\ UNCHANGED <<componentVars, logs, view, event>>

NextCompany == \E id \in CompanyIds : CallGetCompanyName(id)

SpecCompany == InitCompany /\ [][NextCompany]_vars

(***************************************************************************)
(* BluetoothScanner.tsx: the component without the isClient state.  Its    *)
(* steps are written over the same variables as the steps above, so that a *)
(* step of the one component can be compared with the step the other       *)
(* takes from the same state on the same event.  An absent uuids array is  *)
(* the empty one.                                                          *)
(***************************************************************************)
Scanner_hexString(valueDataView) ==
    LET arr == Uint8Array(valueDataView.buffer)
    IN  join([i \in 1..Len(arr) |-> padStart2(toString16(arr[i]))], <<" ">>)

Scanner_logDataView(labelOfDataSource, key, valueDataView) ==
    <<"  ", labelOfDataSource, " Data: ", key, HexMark>>
    \o Scanner_hexString(valueDataView)
    \o <<AsciiMark>> \o decode(valueDataView.buffer)

Scanner_handleAdvertisement(ev) ==
    << <<"Advertisement received.">>,
       <<"  Device Name: ", IF ev.name # "" THEN ev.name ELSE "Unknown">>,
       <<"  Device ID: ", ev.id>>,
       <<"  RSSI: ", IF ev.rssi # Undefined THEN ToString(ev.rssi) ELSE "undefined">>,
       <<"  TX Power: ", IF ev.txPower # Undefined THEN ToString(ev.txPower)
                         ELSE "undefined">>,
       <<"  UUIDs: ">> \o stringifyStrings(ev.uuids) >>
    \o [i \in 1..Len(ev.manufacturerData) |->
          Scanner_logDataView("Manufacturer", ToString(ev.manufacturerData[i].key),
                              ev.manufacturerData[i].value)]
    \o [i \in 1..Len(ev.serviceData) |->
          Scanner_logDataView("Service", ev.serviceData[i].key,
                              ev.serviceData[i].value)]

Scanner_buildOptions(acceptAll, name, prefix) ==
    LET filters == (IF name # "" THEN <<[name |-> name]>> ELSE <<>>)
                   \o (IF prefix # "" THEN <<[namePrefix |-> prefix]>> ELSE <<>>)
    IN  IF acceptAll THEN [acceptAllAdvertisements |-> TRUE]
        ELSE [filters |-> filters]

\* startScan up to the await
Scanner_startScan ==
    /\ IF ~bluetooth
       THEN /\ logs' = Append(logs, <<"Web Bluetooth API is not available in this browser">>)
            /\ UNCHANGED <<isScanning, pending>>
       ELSE LET options == Scanner_buildOptions(acceptAllAdvertisements, deviceName,
                                                deviceNamePrefix)
            IN  /\ logs' = Append(logs, <<"Requesting Bluetooth Scan with options: ">>
                                        \o stringifyOptions(options))
                /\ isScanning' = TRUE
                /\ pending' = Append(pending, [options |-> options,
                                               stopScan |-> currentScan])
    /\ UNCHANGED <<currentScan, scans, listeners, timers>>

\* startScan from the await to the end of the try block
Scanner_resolve(i) ==
    /\ i \in 1..Len(pending)
    /\ LET scan == newScan(pending[i].options)
           n    == Len(scans) + 1
       IN  /\ scans' = Append(scans, scan)
           /\ currentScan' = n
           /\ logs' = logs \o
                << <<"Scan started with:">>,
                   <<" acceptAllAdvertisements: ", BoolStr(scan.acceptAllAdvertisements)>>,
                   <<" active: ", BoolStr(scan.active)>>,
                   <<" keepRepeatedDevices: ", BoolStr(scan.keepRepeatedDevices)>>,
                   <<" filters: ">> \o stringifyFilters(scan.filters) >>
           /\ listeners' = Append(listeners, n)
           /\ timers' = Append(timers, [scan |-> n, stopScan |-> pending[i].stopScan])
    /\ pending' = RemoveAt(pending, i)
    /\ UNCHANGED isScanning

\* the catch block of startScan
Scanner_catch(i, message) ==
    /\ i \in 1..Len(pending)
    /\ logs' = Append(logs, <<"Error: ", message>>)
    /\ isScanning' = FALSE
    /\ pending' = RemoveAt(pending, i)
    /\ UNCHANGED <<currentScan, scans, listeners, timers>>

Scanner_stopScan(captured) ==
    LET stops == captured # 0 /\ scans[captured].active
    IN  /\ logs' = IF stops
                   THEN logs \o << <<"Stopping scan...">>,
                                   <<"Stopped. scan.active = ", BoolStr(FALSE)>> >>
                   ELSE logs
        /\ scans' = IF stops THEN [scans EXCEPT ![captured].active = FALSE] ELSE scans
        /\ isScanning' = FALSE
        /\ currentScan' = 0

\* the toggle button while isScanning is true
Scanner_stopClick ==
    /\ Scanner_stopScan(currentScan)
    /\ UNCHANGED <<pending, listeners, timers>>

\* the 30000 ms timer callback
Scanner_timeout ==
    /\ timers # <<>>
    /\ LET t == Head(timers)
       IN  IF scans[t.scan].active
           THEN Scanner_stopScan(t.stopScan)
           ELSE UNCHANGED <<logs, scans, isScanning, currentScan>>
    /\ timers' = Tail(timers)
    /\ UNCHANGED <<pending, listeners>>

(***************************************************************************)
(* What the claims are stated against: the bytes of the payload itself.    *)
(***************************************************************************)
Range(seq) == {seq[i] : i \in 1..Len(seq)}

\* the payload is an iBeacon frame: at least 23 bytes, bytes 0..1 = 02 15
IsIBeaconFrame(dataView) ==
    /\ dataView.byteLength >= 23
    /\ ViewBytes(dataView)[1] = 2
    /\ ViewBytes(dataView)[2] = 21

HexValue(c) == CHOOSE d \in 0..15 : HexDigits[d + 1] = c

RECURSIVE ParseHex(_)
\* split on spaces, each two-digit token read back as a byte
ParseHex(s) ==
    IF Len(s) < 2 THEN <<>>
    ELSE <<16 * HexValue(s[1]) + HexValue(s[2])>>
         \o (IF Len(s) > 3 /\ s[3] = " " THEN ParseHex(SubSeq(s, 4, Len(s))) ELSE <<>>)

\* the hex string inside a message of logDataView
HexOf(line) ==
    LET a == CHOOSE i \in 6..Len(line) : line[i] = AsciiMark
    IN  SubSeq(line, 6, a - 1)

\* the UUID text of 16 bytes: 32 lowercase hex digits grouped 8-4-4-4-12
UuidText(bytes) ==
    LET h == [i \in 1..32 |-> IF i % 2 = 1
                              THEN HexDigits[(bytes[(i + 1) \div 2] \div 16) + 1]
                              ELSE HexDigits[(bytes[i \div 2] % 16) + 1]]
    IN  [i \in 1..36 |->
            IF i \in {9, 14, 19, 24} THEN "-"
            ELSE h[i - Cardinality({j \in {9, 14, 19, 24} : j < i})]]

LastLog == logs[Len(logs)]

StoppedLine == <<"Stopped. scan.active = ", "false">>

(***************************************************************************)
(* C1: at most one advertisement handler is subscribed, so one delivered   *)
(* advertisement is handled by exactly one handler invocation.             *)
(***************************************************************************)
C1_OneHandlerPerAdvertisement ==
    lastOp.op = "Deliver" => (Len(listeners) <= 1 /\ lastOp.handlers = 1)

(***************************************************************************)
(* C2: when the 30 s timer of a started session that was not stopped by    *)
(* hand fires, the platform scan is stopped (inactive) and the stop        *)
(* confirmation line is the line just appended to the log.                 *)
(***************************************************************************)
C2_TimerStopsScan ==
    [][ (lastOp'.op = "TimerFire" /\ timers # <<>> /\ scans[Head(timers).scan].active)
        => /\ ~scans'[Head(timers).scan].active
           /\ Len(logs') = Len(logs) + 2
           /\ logs'[Len(logs')] = StoppedLine ]_vars

(***************************************************************************)
(* C3: the manual stop and the timeout of a started, still active session  *)
(* end in the same torn-down state: scan inactive, handler unsubscribed,   *)
(* currentScan = null, isScanning = false.                                 *)
(***************************************************************************)
C3_SameTeardown ==
    [][ \A s \in 1..Len(scans) :
          ( /\ scans[s].active
            /\ \/ (lastOp'.op = "StopScan" /\ currentScan = s)
               \/ (lastOp'.op = "TimerFire" /\ timers # <<>> /\ Head(timers).scan = s) )
          => /\ ~scans'[s].active
             /\ s \notin Range(listeners')
             /\ currentScan' = 0
             /\ ~isScanning' ]_vars

(***************************************************************************)
(* C4: at most one platform scan is active, and no requestLEScan is        *)
(* pending or resolved while an earlier scan is still active.              *)
(***************************************************************************)
C4_SingleActiveScan ==
    /\ Cardinality(ActiveScans) <= 1
    /\ pending # <<>> => ActiveScans = {}

(***************************************************************************)
(* C5: a payload shorter than 23 bytes is never recognized by              *)
(* parseiBeacon, whatever its bytes.                                       *)
(***************************************************************************)
C5_ShortPayloadNotRecognized ==
    (ret.op = "parseiBeacon" /\ view.byteLength < 23) => ret.value = Null

C5_Witness ==
    /\ ret.op = "parseiBeacon"
    /\ view.byteLength = 22
    /\ ViewBytes(view)[1] = 2
    /\ ViewBytes(view)[2] = 21
    /\ Len(view.buffer) >= 23
    /\ ret.value = Null

(***************************************************************************)
(* C6: a payload of 23 bytes or more whose bytes 0..1 are not 02 15 is     *)
(* not recognized; a record is returned only when both marker bytes match. *)
(***************************************************************************)
C6_MarkerMismatchNotRecognized ==
    ret.op = "parseiBeacon" =>
      /\ (view.byteLength >= 23
          /\ (ViewBytes(view)[1] # 2 \/ ViewBytes(view)[2] # 21)) => ret.value = Null
      /\ ret.value.recognized => (ViewBytes(view)[1] = 2 /\ ViewBytes(view)[2] = 21)

C6_Witness ==
    /\ ret.op = "parseiBeacon"
    /\ view.byteLength >= 23
    /\ ViewBytes(view)[1] = 2
    /\ ViewBytes(view)[2] # 21
    /\ ret.value = Null

(***************************************************************************)
(* C7: the UUID of a recognized payload is the text of bytes 2..17 of that *)
(* payload, also when the payload is a view at a non-zero offset of a      *)
(* larger buffer.                                                          *)
(***************************************************************************)
C7_UuidFromPayload ==
    (ret.op = "parseiBeacon" /\ IsIBeaconFrame(view)) =>
      /\ ret.value.recognized
      /\ ret.value.uuid = UuidText(SubSeq(ViewBytes(view), 3, 18))

(***************************************************************************)
(* C8: for a recognized payload major and minor are the unsigned           *)
(* big-endian 16-bit values of bytes 18..19 and 20..21, and txPower is     *)
(* byte 22 as a signed 8-bit value.                                        *)
(***************************************************************************)
C8_MajorMinorTxPower ==
    (ret.op = "parseiBeacon" /\ IsIBeaconFrame(view)) =>
      LET b == ViewBytes(view)
      IN  /\ ret.value.recognized
          /\ ret.value.major = 256 * b[19] + b[20]
          /\ ret.value.minor = 256 * b[21] + b[22]
          /\ ret.value.txPower = (IF b[23] < 128 THEN b[23] ELSE b[23] - 256)
          /\ ret.value.major \in 0..65535
          /\ ret.value.minor \in 0..65535
          /\ ret.value.txPower \in (0 - 128)..127

C8_Witness ==
    /\ ret.op = "parseiBeacon"
    /\ IsIBeaconFrame(view)
    /\ view.byteOffset > 0
    /\ SubSeq(ViewBytes(view), 19, 23) = <<1, 2, 0, 3, 197>>
    /\ ret.value.recognized
    /\ ret.value.major = 258
    /\ ret.value.minor = 3
    /\ ret.value.txPower = 0 - 59

(***************************************************************************)
(* C9: the hex string logDataView emits, split on spaces and read back as  *)
(* bytes, is exactly the payload, also for a view into a larger buffer.    *)
(***************************************************************************)
C9_HexRoundTrip ==
    ret.op = "logDataView" => ParseHex(HexOf(LastLog)) = ViewBytes(view)

(***************************************************************************)
(* C10: handleAdvertisement emits one payload block per manufacturer-data  *)
(* entry (structured iff the key is 76 and the payload is an iBeacon       *)
(* frame, raw otherwise) and one raw block per service-data entry, in map  *)
(* order, manufacturer blocks before service blocks.                       *)
(***************************************************************************)
Desc(line) ==
    IF line = DetectedLine THEN <<"ibeacon", "">>
    ELSE IF line[1] = "    Company: " THEN <<"company", line[4]>>
    ELSE IF Len(line) >= 5 /\ line[2] = "    Data" /\ line[5] = HexMark
         THEN <<"raw", line[4]>>
    ELSE IF Len(line) >= 5 /\ line[2] = "    Service" /\ line[5] = HexMark
         THEN <<"service", line[4]>>
    ELSE <<"other", "">>

IsBlockLine(d) == d[1] # "other"

EmittedBlocks == SelectSeq([i \in 1..Len(logs) |-> Desc(logs[i])], IsBlockLine)

RECURSIVE ExpectedManufacturerBlocks(_)
ExpectedManufacturerBlocks(entries) ==
    IF entries = <<>> THEN <<>>
    ELSE << <<"company", ToString(entries[1].key)>>,
            IF entries[1].key = 76 /\ IsIBeaconFrame(entries[1].value)
            THEN <<"ibeacon", "">> ELSE <<"raw", "">> >>
         \o ExpectedManufacturerBlocks(Tail(entries))

ExpectedServiceBlocks(entries) ==
    [i \in 1..Len(entries) |-> <<"service", entries[i].key>>]

C10_OneBlockPerEntry ==
    ret.op = "handleAdvertisement" =>
      EmittedBlocks = ExpectedManufacturerBlocks(event.manufacturerData)
                      \o ExpectedServiceBlocks(event.serviceData)

C10_Witness ==
    /\ ret.op = "handleAdvertisement"
    /\ Len(event.manufacturerData) = 2
    /\ event.manufacturerData[1].key = 76
    /\ IsIBeaconFrame(event.manufacturerData[1].value)
    /\ event.manufacturerData[2].key # 76
    /\ IsIBeaconFrame(event.manufacturerData[2].value)
    /\ Len(event.serviceData) = 1
    /\ EmittedBlocks = << <<"company", "76">>, <<"ibeacon", "">>,
                          <<"company", ToString(event.manufacturerData[2].key)>>,
                          <<"raw", "">>,
                          <<"service", event.serviceData[1].key>> >>

(***************************************************************************)
(* C11: a rejected requestLEScan is handled inside startScan: the step     *)
(* appends exactly one "Error: <message>" line, leaves isScanning false,   *)
(* subscribes no handler, schedules no timer, leaves currentScan and the   *)
(* scans alone and issues no new request (the rejected one is gone, no     *)
(* click is counted).                                                      *)
(***************************************************************************)
C11_RejectionHandled ==
    [][ lastOp'.op = "RejectScan" =>
          /\ \E m \in ErrorMessages : logs' = Append(logs, <<"Error: ", m>>)
          /\ ~isScanning'
          /\ listeners' = listeners
          /\ timers' = timers
          /\ currentScan' = currentScan
          /\ scans' = scans
          /\ Len(pending') = Len(pending) - 1
          /\ starts' = starts ]_vars

C11_Witness ==
    /\ lastOp.op = "RejectScan"
    /\ LastLog[1] = "Error: "
    /\ LastLog[2] \in ErrorMessages
    /\ ~isScanning
    /\ currentScan = 0
    /\ listeners = <<>>
    /\ timers = <<>>
    /\ pending = <<>>

(***************************************************************************)
(* C12: handling an advertisement runs to completion and does not end the  *)
(* session: whatever the payload length and bytes and the company id, the  *)
(* block appended for the event starts with the header, has every line of  *)
(* a full run and ends with the empty line, parseiBeacon yields a record   *)
(* or null, and the handler is still subscribed to a still active scan.    *)
(***************************************************************************)
IsRecordOrNull(r) ==
    \/ r = Null
    \/ /\ DOMAIN r = {"recognized", "uuid", "major", "minor", "txPower"}
       /\ r.recognized
       /\ Len(r.uuid) = 36
       /\ r.major \in 0..65535
       /\ r.minor \in 0..65535
       /\ r.txPower \in (0 - 128)..127

\* the number of lines a complete handleAdvertisement run emits for ev
FullRunLines(ev) ==
    LET m == ev.manufacturerData
        s == ev.serviceData
        structured == {i \in 1..Len(m) : m[i].key = 76 /\ IsIBeaconFrame(m[i].value)}
    IN  6 + (IF Len(m) > 0 THEN 1 + 2 * Len(m) + 4 * Cardinality(structured) ELSE 0)
          + (IF Len(s) > 0 THEN 1 + Len(s) ELSE 0)
          + 1

C12_HandlerCompletes ==
    [][ lastOp'.op = "Deliver" =>
          LET block == SubSeq(logs', Len(logs) + 1, Len(logs'))
              m     == event'.manufacturerData
          IN  /\ SubSeq(logs', 1, Len(logs)) = logs
              /\ Len(block) = Len(listeners) * FullRunLines(event')
              /\ block[1] = HeaderLine
              /\ block[Len(block)] = EmptyLine
              /\ \A i \in 1..Len(m) : IsRecordOrNull(parseiBeacon(m[i].value))
              /\ listeners' = listeners
              /\ listeners' # <<>>
              /\ ActiveScans' = ActiveScans ]_vars

C12_Witness ==
    /\ lastOp.op = "Deliver"
    /\ Len(event.manufacturerData) = 1
    /\ event.manufacturerData[1].key = 76
    /\ event.manufacturerData[1].value.byteLength = 22
    /\ ViewBytes(event.manufacturerData[1].value)[1] = 2
    /\ ViewBytes(event.manufacturerData[1].value)[2] = 21
    /\ LastLog = EmptyLine
    /\ listeners = <<1>>
    /\ scans[1].active

(***************************************************************************)
(* C13: handling an advertisement only appends to the log: the step keeps  *)
(* the earlier log lines and leaves isScanning, currentScan, the filter    *)
(* inputs, the subscribed handlers, the pending timers and requests, the   *)
(* scans and the delivered event itself as they were.                      *)
(***************************************************************************)
C13_HandlerOnlyLogs ==
    [][ lastOp'.op = "Deliver" =>
          /\ Len(logs') >= Len(logs)
          /\ SubSeq(logs', 1, Len(logs)) = logs
          /\ isScanning' = isScanning
          /\ currentScan' = currentScan
          /\ deviceName' = deviceName
          /\ deviceNamePrefix' = deviceNamePrefix
          /\ acceptAllAdvertisements' = acceptAllAdvertisements
          /\ listeners' = listeners
          /\ timers' = timers
          /\ pending' = pending
          /\ scans' = scans
          /\ event' \in SessionEvents ]_vars

C13_Witness ==
    /\ lastOp.op = "Deliver"
    /\ event = ScenarioEvent
    /\ Len(listeners) = 2
    /\ Len(timers) = 2
    /\ isScanning
    /\ currentScan = 2
    /\ Len(logs) > 2 * FullRunLines(ScenarioEvent)

(***************************************************************************)
(* C14: the options of every scan request carry one filtering mode at      *)
(* most: never acceptAllAdvertisements together with a filters list, and   *)
(* in a filters list never an exact-name criterion together with a         *)
(* name-prefix criterion.                                                  *)
(***************************************************************************)
C14_OneFilteringMode ==
    \A i \in 1..Len(pending) :
        LET o == pending[i].options
        IN  /\ ~("acceptAllAdvertisements" \in DOMAIN o /\ "filters" \in DOMAIN o)
            /\ "filters" \in DOMAIN o =>
                  ~( /\ \E j \in 1..Len(o.filters) : "name" \in DOMAIN o.filters[j]
                     /\ \E j \in 1..Len(o.filters) : "namePrefix" \in DOMAIN o.filters[j] )

(***************************************************************************)
(* C15: a start click while the scan facility is unavailable (no           *)
(* navigator.bluetooth, or isClient still false) makes no scan attempt: no *)
(* request is issued, no handler subscribed, no timer scheduled,           *)
(* isScanning stays false, currentScan stays null, and the one effect is   *)
(* the "not available" log line.                                           *)
(***************************************************************************)
NotAvailableLine == <<"Web Bluetooth API is not available in this browser">>

C15_UnavailableNoAttempt ==
    [][ (starts' = starts + 1 /\ (~isClient \/ ~bluetooth)) =>
          /\ pending' = <<>>
          /\ scans' = <<>>
          /\ listeners' = <<>>
          /\ timers' = <<>>
          /\ ~isScanning'
          /\ currentScan' = 0
          /\ logs' = Append(logs, NotAvailableLine)
          /\ UNCHANGED <<isClient, bluetooth, deviceName, deviceNamePrefix,
                         acceptAllAdvertisements>> ]_vars

C15_Witness ==
    /\ lastOp.op = "StartScanUnavailable"
    /\ ~isClient
    /\ bluetooth
    /\ starts = 2
    /\ logs = <<NotAvailableLine, NotAvailableLine>>
    /\ ~isScanning
    /\ pending = <<>>

(***************************************************************************)
(* C16: getCompanyName answers for every identifier: the fixed name for 6, *)
(* 76, 89, 117 and 224, and for every other id, 0 included, the text       *)
(* "Unknown Company (<id>)" with id in decimal.                            *)
(***************************************************************************)
DecimalDigits == <<"0", "1", "2", "3", "4", "5", "6", "7", "8", "9">>

RECURSIVE Decimal(_)
Decimal(n) ==
    IF n < 10 THEN DecimalDigits[n + 1]
    ELSE Decimal(n \div 10) \o DecimalDigits[(n % 10) + 1]

C16_CompanyNameTotal ==
    ret.op = "getCompanyName" =>
      /\ ret.id = 6 => ret.value = "Microsoft Corporation"
      /\ ret.id = 76 => ret.value = "Apple, Inc."
      /\ ret.id = 89 => ret.value = "Nuheara Limited"
      /\ ret.id = 117 => ret.value = "Tencent Holdings Ltd."
      /\ ret.id = 224 => ret.value = "Google"
      /\ ret.id \notin {6, 76, 89, 117, 224} =>
            ret.value = "Unknown Company (" \o Decimal(ret.id) \o ")"

C16_Witness ==
    /\ ret.op = "getCompanyName"
    /\ ret.id = 65535
    /\ ret.value = "Unknown Company (65535)"

(***************************************************************************)
(* C17: the scanning flag never understates the platform: when no start    *)
(* request is pending and isScanning is false no scan is active, and a     *)
(* scan that is active is the one currentScan refers to.                   *)
(***************************************************************************)
C17_FlagNeverUnderstates ==
    /\ (pending = <<>> /\ ~isScanning) => ActiveScans = {}
    /\ \A s \in ActiveScans : currentScan = s

(***************************************************************************)
(* C18: the timer of an earlier session firing while a later session is    *)
(* the current one leaves isScanning, currentScan and the activity of the  *)
(* later session's scan unchanged.                                         *)
(***************************************************************************)
C18_EarlierTimerHarmless ==
    [][ ( /\ lastOp'.op = "TimerFire"
          /\ timers # <<>>
          /\ currentScan > Head(timers).scan )
        => /\ isScanning' = isScanning
           /\ currentScan' = currentScan
           /\ scans'[currentScan].active = scans[currentScan].active ]_vars

(***************************************************************************)
(* C19: the lines one handler invocation emits for one advertisement are   *)
(* one contiguous block of the log, in emission order, from the header to  *)
(* the empty line, with no line of startScan, stopScan or another          *)
(* advertisement inside and no line missing; later steps only append after *)
(* it (or clear the whole log).                                            *)
(***************************************************************************)
SessionLineHeads ==
    {"Requesting Bluetooth Scan with options: ", "Scan started with:",
     " acceptAllAdvertisements: ", " active: ", " keepRepeatedDevices: ",
     " filters: ", "Stopping scan...", "Stopped. scan.active = ", "Error: ",
     "Web Bluetooth API is not available in this browser"}

C19_ContiguousBlocks ==
    [][ /\ lastOp'.op = "Deliver" =>
              \A block \in {handleAdvertisement(event')} :
                  LET k == Len(block)
                      n == Len(listeners)
                  IN  /\ Len(logs') = Len(logs) + n * k
                      /\ SubSeq(logs', 1, Len(logs)) = logs
                      /\ \A h \in 1..n :
                            SubSeq(logs', Len(logs) + (h - 1) * k + 1,
                                   Len(logs) + h * k) = block
                      /\ block[1] = HeaderLine
                      /\ block[k] = EmptyLine
                      /\ \A j \in 2..k : /\ block[j] # HeaderLine
                                          /\ block[j][1] \notin SessionLineHeads
        /\ lastOp'.op \notin {"Deliver", "clearLogs"} =>
              /\ Len(logs') >= Len(logs)
              /\ SubSeq(logs', 1, Len(logs)) = logs ]_vars

C19_Witness ==
    /\ lastOp.op = "StopScan"
    /\ Len(logs) > 2
    /\ LastLog = StoppedLine
    /\ event = ScenarioEvent
    /\ Len(listeners) = 2
    /\ LET k == Len(handleAdvertisement(ScenarioEvent))
           e == Len(logs) - 2
       IN  /\ e > 2 * k
           /\ SubSeq(logs, e - k + 1, e) = handleAdvertisement(ScenarioEvent)
           /\ SubSeq(logs, e - 2 * k + 1, e - k) = handleAdvertisement(ScenarioEvent)

(***************************************************************************)
(* C20: with the facility available and the client mounted, the component  *)
(* of page.tsx and the component of BluetoothScanner.tsx take the same     *)
(* step on every start, stop, grant, rejection and timeout (same           *)
(* isScanning, currentScan, scans, subscriptions, timers), and decode      *)
(* every payload of an advertisement alike: the same entries recognized as *)
(* iBeacon and the same hex strings.                                       *)
(***************************************************************************)
\* the step just taken is the step BluetoothScanner.tsx takes from the same state
SameSessionStep ==
    /\ lastOp'.op \in {"StartScan", "StartScanUnavailable"} => Scanner_startScan
    /\ lastOp'.op = "ResolveScan" => \E i \in 1..Len(pending) : Scanner_resolve(i)
    /\ lastOp'.op = "RejectScan" =>
          \E i \in 1..Len(pending), m \in ErrorMessages : Scanner_catch(i, m)
    /\ lastOp'.op = "StopScan" => Scanner_stopClick
    /\ lastOp'.op = "TimerFire" => Scanner_timeout
    /\ lastOp'.op = "Deliver" =>
          UNCHANGED <<isScanning, currentScan, scans, pending, listeners, timers>>

IsDetectedLine(line) == line = DetectedLine

HasHex(line) == Len(line) > 5 /\ line[5] = HexMark

HexStrings(lines) == LET h == SelectSeq(lines, HasHex)
                     IN  [i \in 1..Len(h) |-> HexOf(h[i])]

SameDecoding(ev) ==
    LET page    == handleAdvertisement(ev)
        scanner == Scanner_handleAdvertisement(ev)
    IN  /\ Len(SelectSeq(page, IsDetectedLine)) = Len(SelectSeq(scanner, IsDetectedLine))
        /\ HexStrings(page) = HexStrings(scanner)

C20_SameCoreLogic ==
    [][ (isClient /\ bluetooth) =>
          /\ SameSessionStep
          /\ lastOp'.op = "Deliver" => SameDecoding(event') ]_vars

====
